---- MODULE Spec2Model ----
(***************************************************************************)
(* Lesson-content pipeline of src/lib/markdown-server.ts:                  *)
(*   parseFrontmatter  - splits a text into a metadata block and a body    *)
(*   getLessonContent  - loads and parses src/lessons/<slug>.md            *)
(*   getAllLessons     - lists the lessons directory, loads every *.md     *)
(*                       file and sorts the metadata by `order`            *)
(* and the query lessons.getLessonContent of src/server/routers/lessons.ts.*)
(* Spec runs every call as one step; SpecSteps runs the loader and the     *)
(* catalog statement by statement while other actors change the directory; *)
(* SpecParse runs parseFrontmatter alone.                                  *)
(* A JavaScript string is modelled as the sequence of its characters, each *)
(* character a one-character TLA+ string.                                  *)
(***************************************************************************)
EXTENDS Integers, Sequences, FiniteSets, TLC

VARIABLES
    fsFiles,      \* the lessons directory: file name -> [content, readable]
    dirOk,        \* TRUE iff fs.readdirSync(lessonsDir) succeeds
    op,           \* the call that completed last, or that is running when
                  \* calls run step by step ("none": no call)
    fileContent,  \* parseFrontmatter: the argument of the last call
    parsed,       \* parseFrontmatter: the outcome of the last call
    slug,         \* getLessonContent: the argument of the last call
    lesson,       \* getLessonContent: the outcome of the last call
    files,        \* getAllLessons: what fs.readdirSync returned
    lessons,      \* getAllLessons: the outcome of the last call
    response,     \* lessons.getLessonContent: the outcome of the last query
    pc,           \* the statement the running call is at, when calls run
                  \* step by step next to other actors on the directory
    todo,         \* getAllLessons: the files the for loop has not visited yet
    input         \* lessons.getUser, lessons.deletePost: the input of the
                  \* last call

vars == <<fsFiles, dirOk, op, fileContent, parsed, slug, lesson, files, lessons,
          response, pc, todo, input>>

(***************************************************************************)
(* Strings                                                                 *)
(***************************************************************************)

\* The characters String.prototype.trim removes and the regex class \s
\* matches (the ones among the characters of the model).
WhiteSpace == {" ", "\t", "\n", "\r"}

Max(S) == CHOOSE x \in S : \A y \in S : y <= x

Min(S) == CHOOSE x \in S : \A y \in S : x <= y

\* s.substring(from0, to0), positions counted from 0 as in JavaScript.
Substring(s, from0, to0) == SubSeq(s, from0 + 1, to0)

\* s.indexOf(c): the 0-based position of the first c, or -1.
IndexOf(s, c) ==
    LET hits == {i \in 1..Len(s) : s[i] = c}
    IN  IF hits = {} THEN -1 ELSE Min(hits) - 1

\* s.trim()
Trim(s) ==
    LET keep == {i \in 1..Len(s) : s[i] \notin WhiteSpace}
    IN  IF keep = {} THEN << >> ELSE SubSeq(s, Min(keep), Max(keep))

\* s.split('\n')
RECURSIVE SplitLines(_)
SplitLines(s) ==
    LET i == IndexOf(s, "\n")
    IN  IF i = -1 THEN <<s>>
        ELSE <<Substring(s, 0, i)>> \o SplitLines(Substring(s, i + 1, Len(s)))

\* s.endsWith(suffix)
EndsWith(s, suffix) ==
    /\ Len(suffix) <= Len(s)
    /\ SubSeq(s, Len(s) - Len(suffix) + 1, Len(s)) = suffix

\* s.replace(pattern, ''): removes the FIRST occurrence of the string pattern.
ReplaceFirst(s, pattern) ==
    LET n    == Len(pattern)
        hits == {i \in 1..(Len(s) - n + 1) : SubSeq(s, i, i + n - 1) = pattern}
    IN  IF hits = {} THEN s
        ELSE SubSeq(s, 1, Min(hits) - 1) \o SubSeq(s, Min(hits) + n, Len(s))

(***************************************************************************)
(* parseInt                                                                *)
(***************************************************************************)

DecDigits == <<"0", "1", "2", "3", "4", "5", "6", "7", "8", "9">>

HexDigits == DecDigits \o <<"a", "b", "c", "d", "e", "f">>

\* The value of character c as a digit of the radix (upper case folded), or -1.
DigitVal(c, radix) ==
    LET lower == IF c \in {"A", "B", "C", "D", "E", "F"}
                 THEN CHOOSE l \in {"a", "b", "c", "d", "e", "f"} :
                        <<c, l>> \in {<<"A", "a">>, <<"B", "b">>, <<"C", "c">>,
                                      <<"D", "d">>, <<"E", "e">>, <<"F", "f">>}
                 ELSE c
        hits  == {i \in 1..radix : HexDigits[i] = lower}
    IN  IF hits = {} THEN -1 ELSE Min(hits) - 1

RECURSIVE DigitsValue(_, _, _)
\* The number the longest prefix of digits of s denotes, continuing from acc.
DigitsValue(s, radix, acc) ==
    IF s = << >> \/ DigitVal(Head(s), radix) = -1 THEN acc
    ELSE DigitsValue(Tail(s), radix, acc * radix + DigitVal(Head(s), radix))

\* parseInt giving 0, not NaN, for a text without a digit.
ParseIntZeroForNoDigit(value) ==
    LET s0     == IF Trim(value) = << >> THEN << >>
                  ELSE SubSeq(value, Min({i \in 1..Len(value) : value[i] \notin WhiteSpace}),
                              Len(value))
        neg    == s0 # << >> /\ Head(s0) = "-"
        s1     == IF s0 # << >> /\ Head(s0) \in {"-", "+"} THEN Tail(s0) ELSE s0
        n      == DigitsValue(s1, 10, 0)
    IN  [has |-> TRUE, nan |-> FALSE, n |-> IF neg THEN 0 - n ELSE n]

\* parseInt(value) with no radix argument: leading white space is skipped,
\* then an optional sign, then an optional 0x/0X prefix (radix 16); the
\* longest prefix of digits is converted and the rest is ignored.  No digit
\* at all gives NaN.
ParseInt(value) ==
    LET s0     == IF Trim(value) = << >> THEN << >>
                  ELSE SubSeq(value, Min({i \in 1..Len(value) : value[i] \notin WhiteSpace}),
                              Len(value))
        neg    == s0 # << >> /\ Head(s0) = "-"
        s1     == IF s0 # << >> /\ Head(s0) \in {"-", "+"} THEN Tail(s0) ELSE s0
        hex    == Len(s1) >= 2 /\ s1[1] = "0" /\ s1[2] \in {"x", "X"}
        radix  == IF hex THEN 16 ELSE 10
        s2     == IF hex THEN SubSeq(s1, 3, Len(s1)) ELSE s1
        nodig  == s2 = << >> \/ DigitVal(Head(s2), radix) = -1
        n      == DigitsValue(s2, radix, 0)
    IN  IF nodig THEN [has |-> TRUE, nan |-> TRUE, n |-> 0]
        ELSE [has |-> TRUE, nan |-> FALSE, n |-> IF neg THEN 0 - n ELSE n]

(***************************************************************************)
(* parseFrontmatter                                                        *)
(***************************************************************************)

Dashes == <<"-", "-", "-">>

\* OpeningEnds for the pattern without its ^ anchor: the opening --- can
\* start anywhere in the text.
OpeningEndsUnanchored(text) ==
    {e \in 4..Len(text) :
        \E s \in 1..(e - 3) :
            /\ SubSeq(text, s, s + 2) = Dashes
            /\ text[e] = "\n"
            /\ \A i \in (s + 3)..(e - 1) : text[i] \in WhiteSpace}

\* The positions e of text at which the prefix  ^---\s*\n  of the pattern can
\* end: text starts with ---, text[e] is a line feed and only white space
\* lies between.
OpeningEnds(text) ==
    {e \in 4..Len(text) :
        /\ SubSeq(text, 1, 3) = Dashes
        /\ text[e] = "\n"
        /\ \A i \in 4..(e - 1) : text[i] \in WhiteSpace}

\* The positions e at which  \n---\s*\n  can end when it starts at position p.
ClosingEnds(text, p) ==
    {e \in (p + 4)..Len(text) :
        /\ text[p] = "\n"
        /\ SubSeq(text, p + 1, p + 3) = Dashes
        /\ text[e] = "\n"
        /\ \A i \in (p + 4)..(e - 1) : text[i] \in WhiteSpace}

\* The positions at or after `from` where  \n---\s*\n  matches.
ClosingStarts(text, from) ==
    {p \in from..Len(text) : ClosingEnds(text, p) # {}}

\* FrontmatterMatch with the closing delimiter optional: without one, group 1
\* runs to the end of the text.
FrontmatterMatchOptionalClosing(text) ==
    LET withClosing == {e \in OpeningEnds(text) : ClosingStarts(text, e + 1) # {}}
    IN  IF OpeningEnds(text) = {}
        THEN [matched |-> FALSE, g1 |-> << >>, g2 |-> << >>]
        ELSE IF withClosing = {}
        THEN [matched |-> TRUE,
              g1 |-> SubSeq(text, Max(OpeningEnds(text)) + 1, Len(text)),
              g2 |-> << >>]
        ELSE [matched |-> TRUE,
              g1 |-> SubSeq(text, Max(withClosing) + 1,
                            Min(ClosingStarts(text, Max(withClosing) + 1)) - 1),
              g2 |-> SubSeq(text,
                            Max(ClosingEnds(text,
                                  Min(ClosingStarts(text, Max(withClosing) + 1)))) + 1,
                            Len(text))]

\* fileContent.match(/^---\s*\n([\s\S]*?)\n---\s*\n([\s\S]*)$/): the groups of
\* the match the backtracking search finds first.  The first \s* is greedy
\* (longest opening first), group 1 is lazy (nearest closing first), the
\* second \s* is greedy, and group 2 takes the rest of the text.
FrontmatterMatch(text) ==
    LET opens == {e \in OpeningEnds(text) : ClosingStarts(text, e + 1) # {}}
    IN  IF opens = {}
        THEN [matched |-> FALSE, g1 |-> << >>, g2 |-> << >>]
        ELSE LET e1 == Max(opens)
                 p  == Min(ClosingStarts(text, e1 + 1))
                 e2 == Max(ClosingEnds(text, p))
             IN  [matched |-> TRUE,
                  g1 |-> SubSeq(text, e1 + 1, p - 1),
                  g2 |-> SubSeq(text, e2 + 1, Len(text))]

OrderKey == <<"o", "r", "d", "e", "r">>

\* const metadata: any = {}: no `order`, no other key.
NoOrder == [has |-> FALSE, nan |-> FALSE, n |-> 0]

EmptyMetadata == [order |-> NoOrder, fields |-> << >>]

\* ApplyLine splitting the line at its last colon.
ApplyLineLastColon(metadata, line) ==
    LET colons     == {i \in 1..Len(line) : line[i] = ":"}
        colonIndex == IF colons = {} THEN -1 ELSE Max(colons) - 1
        key        == Trim(Substring(line, 0, colonIndex))
        value      == Trim(Substring(line, colonIndex + 1, Len(line)))
    IN  IF colonIndex > 0
        THEN IF key = OrderKey
             THEN [metadata EXCEPT !.order = ParseInt(value)]
             ELSE [metadata EXCEPT !.fields =
                     [k \in (DOMAIN metadata.fields) \cup {key} |->
                         IF k = key THEN value ELSE metadata.fields[k]]]
        ELSE metadata

\* ApplyLine storing the value as written after the colon, not trimmed.
ApplyLineRawValue(metadata, line) ==
    LET colonIndex == IndexOf(line, ":")
        key        == Trim(Substring(line, 0, colonIndex))
        value      == Substring(line, colonIndex + 1, Len(line))
    IN  IF colonIndex > 0
        THEN IF key = OrderKey
             THEN [metadata EXCEPT !.order = ParseInt(value)]
             ELSE [metadata EXCEPT !.fields =
                     [k \in (DOMAIN metadata.fields) \cup {key} |->
                         IF k = key THEN value ELSE metadata.fields[k]]]
        ELSE metadata

\* The body of the forEach callback: one line of the metadata block applied to
\* the metadata built so far.  `order` holds the number of the key `order`
\* (has: the key is set; nan: its value is NaN); `fields` maps every other key
\* to its string.
ApplyLine(metadata, line) ==
    LET colonIndex == IndexOf(line, ":")
        key        == Trim(Substring(line, 0, colonIndex))
        value      == Trim(Substring(line, colonIndex + 1, Len(line)))
    IN  IF colonIndex > 0
        THEN IF key = OrderKey
             THEN [metadata EXCEPT !.order = ParseInt(value)]
             ELSE [metadata EXCEPT !.fields =
                     [k \in (DOMAIN metadata.fields) \cup {key} |->
                         IF k = key THEN value ELSE metadata.fields[k]]]
        ELSE metadata

RECURSIVE ApplyLines(_, _)
\* frontmatterString.split('\n').forEach(...)
ApplyLines(metadata, lines) ==
    IF lines = << >> THEN metadata
    ELSE ApplyLines(ApplyLine(metadata, Head(lines)), Tail(lines))

\* The outcome of a throw of parseFrontmatter.
ParseError == [threw |-> TRUE, metadata |-> EmptyMetadata, content |-> << >>]

\* parseFrontmatter returning the body as matched, not trimmed.
parseFrontmatterUntrimmed(text) ==
    LET match == FrontmatterMatch(text)
    IN  IF ~match.matched THEN ParseError
        ELSE [threw    |-> FALSE,
              metadata |-> ApplyLines(EmptyMetadata, SplitLines(match.g1)),
              content  |-> match.g2]

parseFrontmatter(text) ==
    LET match == FrontmatterMatch(text)
    IN  IF ~match.matched THEN ParseError
        ELSE [threw    |-> FALSE,
              metadata |-> ApplyLines(EmptyMetadata, SplitLines(match.g1)),
              content  |-> Trim(match.g2)]

(***************************************************************************)
(* Inputs                                                                  *)
(***************************************************************************)

\* The largest number of files in the lessons directory.
MaxFiles == 4

\* The largest number of whole lines of a free-form text given to
\* parseFrontmatter.
MaxLines == 4

NL == <<"\n">>

DotMd == <<".", "m", "d">>

SlugKey == <<"s", "l", "u", "g">>

TitleKey == <<"t", "i", "t", "l", "e">>

\* The line `key: value`, without its line feed.
MetaLine(key, value) == key \o <<":", " ">> \o value

\* A lesson file as the files of src/lessons are written: the delimiter
\* line, `slug: s`, `order: n`, `title: t`, the delimiter line, the body;
\* every line ends with a line feed.
Document(s, n, t, body) ==
    Dashes \o NL \o MetaLine(SlugKey, s) \o NL \o MetaLine(OrderKey, n) \o NL
           \o MetaLine(TitleKey, t) \o NL \o Dashes \o NL \o body

\* Values written after `slug: ` and `title: `.
FieldValues ==
    {<<"a">>, <<"b", " ", "c">>, <<"T", ":", "x">>, << >>, <<" ", "a">>, <<"a", " ">>}

\* Decimal integer literals with the integers they denote.
OrderLiterals ==
    {[lit |-> <<"1">>, n |-> 1], [lit |-> <<"0", "7">>, n |-> 7],
     [lit |-> <<"-", "2">>, n |-> 0 - 2], [lit |-> <<"1", "2", "0">>, n |-> 120]}

\* Bodies: empty, plain, surrounded by white space, holding a delimiter line.
Bodies ==
    {<< >>, <<"x">>, <<"\n", " ", "x", " ", "y", "\n", "\n">>,
     <<"x", "\n", "-", "-", "-", "\n", "y">>, <<" ", "\n">>}

\* The texts of the shape of Document, with the parts they are made of.
FormDocuments ==
    {[s |-> s, lit |-> o.lit, n |-> o.n, t |-> t, body |-> b,
      text |-> Document(s, o.lit, t, b)] :
        s \in FieldValues, o \in OrderLiterals, t \in {<<"a">>, <<"T", ":", "x">>, <<" ", "a", " ">>},
        b \in Bodies}

\* The lines free-form texts are made of: the delimiter, the delimiter with a
\* trailing blank, the empty line, a `key: value` line, a line without a
\* colon, a line that starts with a colon, and a line with blanks around the
\* key of the `key: value` line and two colons.
FreeLines ==
    {Dashes, Dashes \o <<" ">>, << >>, <<"k", ":", "v">>, <<"x">>, <<":", "v">>,
     <<" ", "k", " ", ":", " ", "w", ":", "u", " ">>}

\* What a free-form text ends with after its last whole line.
FreeTails == {<< >>, <<"b">>, Dashes}

RECURSIVE JoinLines(_)
\* The lines, each followed by a line feed.
JoinLines(ls) == IF ls = << >> THEN << >> ELSE Head(ls) \o NL \o JoinLines(Tail(ls))

\* Every text of at most MaxLines whole lines of FreeLines and a tail.
FreeTexts ==
    {JoinLines(ls) \o tail :
        ls \in UNION {[1..k -> FreeLines] : k \in 0..MaxLines}, tail \in FreeTails}

RECURSIVE DecimalDigits(_)
\* The decimal digits of the natural number n, without leading zeros.
DecimalDigits(n) ==
    IF n < 10 THEN <<DecDigits[n + 1]>>
    ELSE Append(DecimalDigits(n \div 10), DecDigits[(n % 10) + 1])

\* String(n) for an integer n.
ToDecimal(n) == IF n < 0 THEN <<"-">> \o DecimalDigits(0 - n) ELSE DecimalDigits(n)

\* The record {slug: s, order: n, title: t} and the body written in the
\* two-delimiter format: the delimiter line, one `key: value` line per field,
\* the delimiter line, the body.
Serialize(s, n, t, body) == Document(s, ToDecimal(n), t, body)

\* Slugs and titles of the records that are serialized: plain, with a blank
\* inside, with a colon, empty, with white space at an end, of two lines.
RecordStrings ==
    {<<"a">>, <<"b", " ", "c">>, <<"T", ":", "x">>, << >>, <<"a", " ">>,
     <<"A", "\n", "B">>}

\* Orders of the records that are serialized.
RecordOrders == {0, 7, 0 - 2, 120}

\* Bodies of the records that are serialized: empty, plain, of several lines
\* with a delimiter line first, with white space at an end.
RecordBodies ==
    {<< >>, <<"x">>, <<"-", "-", "-", "\n", "x", " ", "y">>, <<"x", "\n">>,
     <<" ", "x">>}

\* The records that are serialized, with their texts.
RoundTripRecords ==
    {[s |-> s, n |-> n, t |-> t, body |-> b, text |-> Serialize(s, n, t, b)] :
        s \in RecordStrings, n \in RecordOrders,
        t \in {<<"a">>, <<"T", ":", "x">>, <<"A", "\n", "B">>, <<" ", "a">>},
        b \in RecordBodies}

\* Values of `order` that are no integer literal: empty, alphabetic, starting
\* with a letter, a point, a sign without a digit after it.
NonNumericOrders ==
    {<< >>, <<"x">>, <<"x", "1">>, <<".", "5">>, <<"-">>, <<"-", " ", "5">>,
     <<"N", "a", "N">>, <<"o", "n", "e", " ", "2">>}

\* Documents that are valid but for their `order`, with their parts.
NonNumericDocuments ==
    {[s |-> s, v |-> v, t |-> t, body |-> b, text |-> Document(s, v, t, b)] :
        s \in {<<"a">>, <<"b", " ", "c">>}, v \in NonNumericOrders,
        t \in {<<"a">>, <<"T", ":", "x">>}, b \in {<<"x">>, <<"x", "\n", "y", "\n">>}}

\* Documents with something before the opening ---, or with something other
\* than white space after it on the first line.
MisplacedOpenings ==
    LET bases == {Document(<<"a">>, <<"1">>, <<"A">>, <<"x">>),
                  Document(<<"b", " ", "c">>, <<"2">>, <<"T", ":", "x">>, <<"x", "\n", "y", "\n">>)}
        before == {<<" ">>, <<"\t">>, <<"\n">>, <<" ", "\n">>, <<"x">>, <<"x", "\n">>,
                   <<"-">>}
        after == {<<"x">>, <<" ", "x">>, <<"-">>, <<"\t", ".", " ">>}
    IN  {b \o d : b \in before, d \in bases}
            \cup {Dashes \o a \o SubSeq(d, 4, Len(d)) : a \in after, d \in bases}

\* The texts parseFrontmatter is called with.
ParseTexts ==
    {d.text : d \in FormDocuments} \cup FreeTexts \cup {r.text : r \in RoundTripRecords}
        \cup {d.text : d \in NonNumericDocuments} \cup MisplacedOpenings

\* Texts of the files of the lessons directory.
DocA == Document(<<"a">>, <<"1">>, <<"A">>, <<"x">>)

DocB == Document(<<"b">>, <<"2">>, <<"B">>, <<"y">>)

DocC == Document(<<"c">>, <<"3">>, <<"C">>, << >>)

DocD == Document(<<"d">>, <<"x">>, <<"D">>, <<"z">>)

DocE == Document(<<"e">>, <<"2">>, <<"E">>, <<"w">>)

\* The slug of DocA, no order and no title.
DocG == Dashes \o NL \o MetaLine(SlugKey, <<"a">>) \o NL \o Dashes \o NL \o <<"x">>

\* No closing delimiter line.
DocBad == Dashes \o NL \o MetaLine(SlugKey, <<"a">>) \o NL \o <<"x">> \o NL

\* What the environment can put into the lessons directory.
Resources ==
    {[name |-> <<"a">> \o DotMd, content |-> DocA, readable |-> TRUE],
     [name |-> <<"a">> \o DotMd, content |-> DocBad, readable |-> TRUE],
     [name |-> <<"b">> \o DotMd, content |-> DocB, readable |-> TRUE],
     [name |-> <<"c">> \o DotMd, content |-> DocC, readable |-> TRUE],
     [name |-> <<"d">> \o DotMd, content |-> DocD, readable |-> TRUE],
     [name |-> <<"e">> \o DotMd \o <<"x">> \o DotMd, content |-> DocE, readable |-> TRUE],
     [name |-> <<"e", "x">> \o DotMd \o DotMd, content |-> DocE, readable |-> TRUE],
     [name |-> <<"f">> \o DotMd, content |-> DocA, readable |-> FALSE],
     [name |-> <<"g">> \o DotMd, content |-> DocG, readable |-> TRUE],
     [name |-> <<"n", ".", "t", "x", "t">>, content |-> DocA, readable |-> TRUE]}

FileNames == {r.name : r \in Resources}

\* The identifiers getLessonContent is called with: every file name without
\* its final .md, what getAllLessons derives from the names, one that names
\* no file, two other spellings of the path of a.md, and one that leads to
\* the directory above.
Slugs ==
    {SubSeq(f, 1, Len(f) - 3) : f \in {g \in FileNames : EndsWith(g, DotMd)}}
    \cup {ReplaceFirst(f, DotMd) : f \in FileNames}
    \cup {<<"z">>, <<".", "/", "a">>, <<"b", "/", ".", ".", "/", "a">>,
          <<".", ".", "/", "a">>}

\* The orders in which fs.readdirSync can list the names of S.
Listings(S) ==
    LET n == Cardinality(S)
    IN  {l \in [1..n -> S] : \A i, j \in 1..n : i # j => l[i] # l[j]}

\* parseFrontmatter on the text of a file of the lessons directory: every
\* text a file can hold is parsed once and the outcome looked up.
ParsedFiles == [t \in {r.content : r \in Resources} |-> parseFrontmatter(t)]

ParseFile(text) == ParsedFiles[text]

(***************************************************************************)
(* The lessons directory                                                   *)
(***************************************************************************)

\* process.cwd() and the lessons directory path.join(process.cwd(), 'src',
\* 'lessons'), as the segments of the absolute path.
LessonsDir ==
    <<<<"c", "w", "d">>, <<"s", "r", "c">>, <<"l", "e", "s", "s", "o", "n", "s">>>>

RECURSIVE SplitSegments(_)
\* The segments of a path: the texts between its separators `/`.
SplitSegments(path) ==
    LET i == IndexOf(path, "/")
    IN  IF i = -1 THEN <<path>>
        ELSE <<Substring(path, 0, i)>> \o SplitSegments(Substring(path, i + 1, Len(path)))

RECURSIVE NormalizeSegments(_, _)
\* The normalization path.join applies to an absolute path: empty segments
\* and `.` are dropped, `..` removes the segment before it (none at the root).
NormalizeSegments(segments, done) ==
    IF segments = << >> THEN done
    ELSE IF Head(segments) \in {<< >>, <<".">>}
         THEN NormalizeSegments(Tail(segments), done)
    ELSE IF Head(segments) = <<".", ".">>
         THEN NormalizeSegments(Tail(segments),
                                IF done = << >> THEN done
                                ELSE SubSeq(done, 1, Len(done) - 1))
    ELSE NormalizeSegments(Tail(segments), Append(done, Head(segments)))

RECURSIVE JoinSegments(_)
\* The segments with `/` between them.
JoinSegments(segments) ==
    IF segments = << >> THEN << >>
    ELSE IF Len(segments) = 1 THEN segments[1]
    ELSE segments[1] \o <<"/">> \o JoinSegments(Tail(segments))

\* The normalized absolute path written from the lessons directory: the path
\* below it when it lies inside, the absolute path (leading `/`) otherwise.
FromLessonsDir(segments) ==
    IF Len(segments) > Len(LessonsDir) /\ SubSeq(segments, 1, Len(LessonsDir)) = LessonsDir
    THEN JoinSegments(SubSeq(segments, Len(LessonsDir) + 1, Len(segments)))
    ELSE <<"/">> \o JoinSegments(segments)

\* path.join(lessonsDir, `${slug}.md`); the files of the lessons directory
\* are named by their path below it.
JoinLessonsDir(s) ==
    FromLessonsDir(NormalizeSegments(LessonsDir \o SplitSegments(s \o DotMd), << >>))

\* The paths of the identifiers of Slugs, joined once and looked up.
FilePaths == [s \in Slugs |-> JoinLessonsDir(s)]

\* const filePath = path.join(lessonsDir, `${slug}.md`);
FilePath(s) == IF s \in Slugs THEN FilePaths[s] ELSE JoinLessonsDir(s)

\* fs.existsSync(filePath)
ExistsSync(fs, filePath) == filePath \in DOMAIN fs

\* fs.readFileSync(filePath, 'utf8'): the text, or a throw when the file
\* is not there or cannot be read (no permission, a directory of that name).
ReadFileSync(fs, filePath) ==
    IF filePath \in DOMAIN fs /\ fs[filePath].readable
    THEN [threw |-> FALSE, text |-> fs[filePath].content]
    ELSE [threw |-> TRUE, text |-> << >>]

(***************************************************************************)
(* getLessonContent                                                        *)
(***************************************************************************)

\* return null
NullLesson ==
    [threw |-> FALSE, isNull |-> TRUE, metadata |-> EmptyMetadata, content |-> << >>]

\* An exception leaving a function that returns a lesson.
LessonError ==
    [threw |-> TRUE, isNull |-> FALSE, metadata |-> EmptyMetadata, content |-> << >>]

\* return parseFrontmatter(fileContent): the document as the lesson, or the
\* exception of parseFrontmatter passed on.
ReturnParsed(doc) ==
    IF doc.threw THEN LessonError
    ELSE [threw |-> FALSE, isNull |-> FALSE,
          metadata |-> doc.metadata, content |-> doc.content]

\* const fileContent = fs.readFileSync(...); return parseFrontmatter(fileContent)
ParseRead(read) ==
    IF read.threw THEN LessonError ELSE ReturnParsed(ParseFile(read.text))

\* The try block of getLessonContent.
getLessonContentTry(fs, s) ==
    IF ~ExistsSync(fs, FilePath(s)) THEN NullLesson
    ELSE ParseRead(ReadFileSync(fs, FilePath(s)))

\* catch (error) { console.error(...); return null; }
CatchLesson(r) == IF r.threw THEN NullLesson ELSE r

\* getLessonContent without its try/catch: what the body raises, the caller
\* gets.
getLessonContentUncaught(fs, s) == getLessonContentTry(fs, s)

\* getLessonContent raising for a file that does not exist.
getLessonContentMissingRaises(fs, s) ==
    IF ~ExistsSync(fs, FilePath(s)) THEN LessonError
    ELSE CatchLesson(getLessonContentTry(fs, s))

\* try { ... } catch (error) { ... }
getLessonContent(fs, s) == CatchLesson(getLessonContentTry(fs, s))

(***************************************************************************)
(* getAllLessons                                                           *)
(***************************************************************************)

\* a.order - b.order: a number, or NaN when either order is NaN or undefined.
CompareFn(a, b) ==
    IF a.order.has /\ ~a.order.nan /\ b.order.has /\ ~b.order.nan
    THEN [nan |-> FALSE, n |-> a.order.n - b.order.n]
    ELSE [nan |-> TRUE, n |-> 0]

\* SortCompare of Array.prototype.sort: a NaN of the comparator counts as +0.
SortCompare(a, b) ==
    LET v == CompareFn(a, b) IN IF v.nan THEN 0 ELSE v.n

\* Whether the comparator is a consistent comparison function for the
\* elements of list (ECMAScript, Array.prototype.sort): "equal" and "less"
\* are transitive and compatible.
ConsistentComparator(list) ==
    LET E == {list[i] : i \in 1..Len(list)}
    IN  \A a, b, c \in E :
          /\ (SortCompare(a, b) = 0 /\ SortCompare(b, c) = 0) => SortCompare(a, c) = 0
          /\ (SortCompare(a, b) < 0 /\ SortCompare(b, c) < 0) => SortCompare(a, c) < 0
          /\ (SortCompare(a, b) = 0 /\ SortCompare(b, c) < 0) => SortCompare(a, c) < 0
          /\ (SortCompare(a, b) < 0 /\ SortCompare(b, c) = 0) => SortCompare(a, c) < 0

\* x put into the sorted sequence s behind every element that is not greater.
InsertSorted(s, x) ==
    LET after == {i \in 1..Len(s) : SortCompare(s[i], x) <= 0}
        k     == IF after = {} THEN 0 ELSE Max(after)
    IN  SubSeq(s, 1, k) \o <<x>> \o SubSeq(s, k + 1, Len(s))

RECURSIVE StableSort(_)
\* The stable sort (ECMAScript 2019 and later) under a consistent comparator.
StableSort(list) ==
    IF list = << >> THEN << >>
    ELSE InsertSorted(StableSort(SubSeq(list, 1, Len(list) - 1)), list[Len(list)])

\* The rearrangements of list.
Rearrangements(list) ==
    LET n == Len(list)
    IN  {[i \in 1..n |-> list[p[i]]] : p \in Permutations(1..n)}

\* The sort leaving the array as it is.
SortOutcomesUnsorted(list) == {list}

\* lessons.sort((a, b) => a.order - b.order): every array the call can leave.
\* With a comparator that is not consistent the order is implementation-
\* defined, so every rearrangement is possible.
SortOutcomes(list) ==
    IF ConsistentComparator(list) THEN {StableSort(list)} ELSE Rearrangements(list)

\* if (content) { lessons.push(content.metadata); }
PushLesson(content, acc) ==
    IF content.threw THEN [threw |-> TRUE, list |-> << >>]
    ELSE IF ~content.isNull
         THEN [threw |-> FALSE, list |-> Append(acc, content.metadata)]
         ELSE [threw |-> FALSE, list |-> acc]

\* One iteration of the for loop of getAllLessons: the array `lessons` after
\* the iteration for `file`, `acc` being the array before it; threw:
\* getLessonContent raised.
LoadFile(fs, file, acc) ==
    IF EndsWith(file, DotMd)
    THEN PushLesson(getLessonContent(fs, ReplaceFirst(file, DotMd)), acc)
    ELSE [threw |-> FALSE, list |-> acc]

RECURSIVE CollectLessons(_, _, _), CollectNext(_, _, _)
\* The for loop of getAllLessons over the rest of `files`.
CollectLessons(fs, rest, acc) ==
    IF rest = << >> THEN [threw |-> FALSE, list |-> acc]
    ELSE CollectNext(fs, Tail(rest), LoadFile(fs, Head(rest), acc))

\* The loop goes on after an iteration, unless the iteration raised.
CollectNext(fs, rest, step) ==
    IF step.threw THEN step ELSE CollectLessons(fs, rest, step.list)

\* return lessons, the sort left out.
ReturnUnsorted(collected) == {collected}

\* return lessons.sort(...)
ReturnSorted(collected) ==
    IF collected.threw THEN {collected}
    ELSE {[threw |-> FALSE, list |-> l] : l \in SortOutcomes(collected.list)}

\* The try block of getAllLessons; listing is what fs.readdirSync returns,
\* ok whether it returns at all.
getAllLessonsTry(fs, ok, listing) ==
    IF ~ok THEN {[threw |-> TRUE, list |-> << >>]}
    ELSE ReturnSorted(CollectLessons(fs, listing, << >>))

\* catch (error) { console.error(...); return []; }
CatchLessons(r) == IF r.threw THEN [threw |-> FALSE, list |-> << >>] ELSE r

\* getAllLessons without its try/catch.
getAllLessonsUncaught(fs, ok, listing) == getAllLessonsTry(fs, ok, listing)

\* try { ... } catch (error) { ... }
getAllLessons(fs, ok, listing) ==
    {CatchLessons(r) : r \in getAllLessonsTry(fs, ok, listing)}

(***************************************************************************)
(* The query lessons.getLessonContent of the router                        *)
(***************************************************************************)

\* No query has been answered.
NoResponse ==
    [kind |-> "none", code |-> "", metadata |-> EmptyMetadata, content |-> << >>]

\* A query that fails with a TRPCError of the code.
TRPCError(code) ==
    [kind |-> "error", code |-> code, metadata |-> EmptyMetadata, content |-> << >>]

\* The query returning null for a lesson that is not there, instead of
\* throwing.
LessonContentQueryReturnsNull(content) ==
    IF content.threw THEN TRPCError("INTERNAL_SERVER_ERROR")
    ELSE IF content.isNull
         THEN [kind |-> "data", code |-> "", metadata |-> EmptyMetadata,
               content |-> << >>]
         ELSE [kind |-> "data", code |-> "",
               metadata |-> content.metadata, content |-> content.content]

\* if (!content) { throw new TRPCError({code: 'NOT_FOUND', ...}) }
\* return content;  an error that is no TRPCError leaves the procedure as
\* INTERNAL_SERVER_ERROR.
LessonContentQuery(content) ==
    IF content.threw THEN TRPCError("INTERNAL_SERVER_ERROR")
    ELSE IF content.isNull THEN TRPCError("NOT_FOUND")
         ELSE [kind |-> "data", code |-> "",
               metadata |-> content.metadata, content |-> content.content]

(***************************************************************************)
(* The procedures lessons.getUser and lessons.deletePost of the router     *)
(***************************************************************************)

\* No procedure with a numeric input has been called.
NoInput == [none |-> TRUE]

\* throw new TRPCError({code: ..., message: ...})
TRPCErrorMessage(code, message) == [kind |-> "error", code |-> code, message |-> message]

\* The procedure returns data.
Returns(data) == [kind |-> "data", data |-> data]

\* const users = [...]
users ==
    <<[id |-> 1, name |-> "Alice", email |-> "alice@example.com", role |-> "admin"],
      [id |-> 2, name |-> "Bob", email |-> "bob@example.com", role |-> "user"],
      [id |-> 3, name |-> "Charlie", email |-> "charlie@example.com", role |-> "user"]>>

\* getUser looking among the first two users only.
getUserAmongTwo(args) ==
    LET found == {i \in 1..2 : users[i].id = args.id}
    IN  IF found = {} THEN TRPCErrorMessage("NOT_FOUND", "User not found")
        ELSE Returns(users[Min(found)])

\* const user = users.find(u => u.id === input.id);
\* if (!user) { throw new TRPCError({code: 'NOT_FOUND', ...}) }  return user;
getUser(args) ==
    LET found == {i \in 1..Len(users) : users[i].id = args.id}
    IN  IF found = {} THEN TRPCErrorMessage("NOT_FOUND", "User not found")
        ELSE Returns(users[Min(found)])

\* const adminUsers = [1, 2];
adminUsers == <<1, 2>>

\* adminUsers.includes(userId)
Includes(list, x) == \E i \in 1..Len(list) : list[i] = x

\* `Post ${input.postId} deleted successfully`
DeletedMessage(postId) ==
    <<"P", "o", "s", "t", " ">> \o ToDecimal(postId)
        \o <<" ", "d", "e", "l", "e", "t", "e", "d", " ",
             "s", "u", "c", "c", "e", "s", "s", "f", "u", "l", "l", "y">>

\* deletePost looking for the post before it checks the permission.
deletePostPostFirst(args) ==
    IF args.postId > 100
    THEN TRPCErrorMessage("NOT_FOUND", "Post not found")
    ELSE IF ~Includes(adminUsers, args.userId)
    THEN TRPCErrorMessage("UNAUTHORIZED", "Insufficient permissions to delete posts")
    ELSE IF args.postId = 13
    THEN TRPCErrorMessage("INTERNAL_SERVER_ERROR", "Database connection failed")
    ELSE Returns([success |-> TRUE, message |-> DeletedMessage(args.postId)])

\* The body of the mutation deletePost: the three checks in their order,
\* each throwing a TRPCError, then the return.
deletePost(args) ==
    IF ~Includes(adminUsers, args.userId)
    THEN TRPCErrorMessage("UNAUTHORIZED", "Insufficient permissions to delete posts")
    ELSE IF args.postId > 100
    THEN TRPCErrorMessage("NOT_FOUND", "Post not found")
    ELSE IF args.postId = 13
    THEN TRPCErrorMessage("INTERNAL_SERVER_ERROR", "Database connection failed")
    ELSE Returns([success |-> TRUE, message |-> DeletedMessage(args.postId)])

(***************************************************************************)
(* State machine                                                           *)
(***************************************************************************)

NoCatalog == [threw |-> FALSE, list |-> << >>]

Init ==
    /\ fsFiles = << >>
    /\ dirOk = TRUE
    /\ op = "none"
    /\ fileContent = << >>
    /\ parsed = ParseError
    /\ slug = << >>
    /\ lesson = NullLesson
    /\ files = << >>
    /\ lessons = NoCatalog
    /\ response = NoResponse
    /\ pc = "idle"
    /\ todo = << >>
    /\ input = NoInput

\* No call is outstanding (op = "none"): the results of the last call are
\* forgotten.  The code runs one call at a time and to completion, so the
\* environment changes the directory between calls.
Idle ==
    /\ op' = "none"
    /\ fileContent' = << >>
    /\ parsed' = ParseError
    /\ slug' = << >>
    /\ lesson' = NullLesson
    /\ files' = << >>
    /\ lessons' = NoCatalog
    /\ response' = NoResponse
    /\ pc' = "idle"
    /\ todo' = << >>
    /\ input' = NoInput

\* The environment creates or rewrites a file of the lessons directory.
WriteFile(r) ==
    /\ op = "none"
    /\ Cardinality(DOMAIN fsFiles \cup {r.name}) <= MaxFiles
    /\ fsFiles' = [f \in DOMAIN fsFiles \cup {r.name} |->
                     IF f = r.name THEN [content |-> r.content, readable |-> r.readable]
                     ELSE fsFiles[f]]
    /\ UNCHANGED dirOk
    /\ Idle

\* The environment removes a file of the lessons directory.
Unlink(f) ==
    /\ op = "none"
    /\ f \in DOMAIN fsFiles
    /\ fsFiles' = [g \in DOMAIN fsFiles \ {f} |-> fsFiles[g]]
    /\ UNCHANGED dirOk
    /\ Idle

\* The environment makes the lessons directory listable or not.
SetListable(b) ==
    /\ op = "none"
    /\ dirOk # b
    /\ dirOk' = b
    /\ UNCHANGED fsFiles
    /\ Idle

\* A call parseFrontmatter(text).
ParseFrontmatterCall ==
    /\ op = "none"
    /\ op' = "parseFrontmatter"
    /\ parsed' = parseFrontmatter(fileContent)
    /\ UNCHANGED <<fsFiles, dirOk, fileContent, slug, lesson, files, lessons,
                   response, pc, todo, input>>

\* A call getLessonContent(s).
GetLessonContentCall(s) ==
    /\ op = "none"
    /\ op' = "getLessonContent"
    /\ slug' = s
    /\ lesson' = getLessonContent(fsFiles, s)
    /\ files' = << >>
    /\ lessons' = NoCatalog
    /\ UNCHANGED <<fsFiles, dirOk, fileContent, parsed, response, pc, todo, input>>

\* getAllLessons removing the files it cannot read from the directory.
GetAllLessonsCallPruning ==
    /\ op = "none"
    /\ \E listing \in Listings(DOMAIN fsFiles) :
          /\ files' = (IF dirOk THEN listing ELSE << >>)
          /\ lessons' \in getAllLessons(fsFiles, dirOk, listing)
    /\ op' = "getAllLessons"
    /\ slug' = << >>
    /\ lesson' = NullLesson
    /\ fsFiles' = [f \in {g \in DOMAIN fsFiles : fsFiles[g].readable} |-> fsFiles[f]]
    /\ UNCHANGED <<dirOk, fileContent, parsed, response, pc, todo, input>>

\* A call getAllLessons(); fs.readdirSync lists the directory in some order.
GetAllLessonsCall ==
    /\ op = "none"
    /\ \E listing \in Listings(DOMAIN fsFiles) :
          /\ files' = (IF dirOk THEN listing ELSE << >>)
          /\ lessons' \in getAllLessons(fsFiles, dirOk, listing)
    /\ op' = "getAllLessons"
    /\ slug' = << >>
    /\ lesson' = NullLesson
    /\ UNCHANGED <<fsFiles, dirOk, fileContent, parsed, response, pc, todo, input>>

\* A query lessons.getLessonContent({slug: s}) of the router.
GetLessonContentQuery(s) ==
    /\ op = "none"
    /\ op' = "lessons.getLessonContent"
    /\ slug' = s
    /\ lesson' = getLessonContent(fsFiles, s)
    /\ response' = LessonContentQuery(getLessonContent(fsFiles, s))
    /\ files' = << >>
    /\ lessons' = NoCatalog
    /\ UNCHANGED <<fsFiles, dirOk, fileContent, parsed, pc, todo, input>>

\* The call returning with its results kept for the next call.
ReturnKeepingResults ==
    /\ op # "none"
    /\ op' = "none"
    /\ UNCHANGED <<fsFiles, dirOk, fileContent, parsed, slug, lesson, files,
                   lessons, response, pc, todo, input>>

\* The caller has taken the result of the call; the next call can start.
Return ==
    /\ op # "none"
    /\ UNCHANGED <<fsFiles, dirOk>>
    /\ Idle

Next ==
    \/ \E r \in Resources : WriteFile(r)
    \/ \E f \in FileNames : Unlink(f)
    \/ \E b \in BOOLEAN : SetListable(b)
    \/ \E s \in Slugs : GetLessonContentCall(s)
    \/ \E s \in Slugs : GetLessonContentQuery(s)
    \/ GetAllLessonsCall
    \/ Return

\* The lessons directory and the calls of the loader and of the catalog.
Spec == Init /\ [][Next]_vars

\* parseFrontmatter alone, on every text of ParseTexts.
InitParse ==
    /\ fsFiles = << >>
    /\ dirOk = TRUE
    /\ op = "none"
    /\ fileContent \in ParseTexts
    /\ parsed = ParseError
    /\ slug = << >>
    /\ lesson = NullLesson
    /\ files = << >>
    /\ lessons = NoCatalog
    /\ response = NoResponse
    /\ pc = "idle"
    /\ todo = << >>
    /\ input = NoInput

NextParse == ParseFrontmatterCall

SpecParse == InitParse /\ [][NextParse]_vars

\* The numbers getUser and deletePost are called with.
Numbers == {-1, 0, 1, 2, 3, 4, 12, 13, 14, 100, 101}

\* A query lessons.getUser({id: id}) of the router.
GetUserQuery(id) ==
    /\ op = "none"
    /\ op' = "lessons.getUser"
    /\ input' = [id |-> id]
    /\ response' = getUser([id |-> id])
    /\ UNCHANGED <<fsFiles, dirOk, fileContent, parsed, slug, lesson, files,
                   lessons, pc, todo>>

\* A mutation lessons.deletePost({postId: postId, userId: userId}) of the
\* router.
DeletePostMutation(postId, userId) ==
    /\ op = "none"
    /\ op' = "lessons.deletePost"
    /\ input' = [postId |-> postId, userId |-> userId]
    /\ response' = deletePost([postId |-> postId, userId |-> userId])
    /\ UNCHANGED <<fsFiles, dirOk, fileContent, parsed, slug, lesson, files,
                   lessons, pc, todo>>

NextRouter ==
    \/ \E id \in Numbers : GetUserQuery(id)
    \/ \E postId, userId \in Numbers : DeletePostMutation(postId, userId)
    \/ Return

\* The procedures getUser and deletePost of the router, called one after
\* the other.
SpecRouter == Init /\ [][NextRouter]_vars

(***************************************************************************)
(* The calls step by step, other actors changing the directory meanwhile   *)
(***************************************************************************)

\* What the other actors put into the lessons directory while a call runs.
StepResources ==
    {[name |-> <<"a">> \o DotMd, content |-> DocA, readable |-> TRUE],
     [name |-> <<"b">> \o DotMd, content |-> DocB, readable |-> TRUE],
     [name |-> <<"e">> \o DotMd \o <<"x">> \o DotMd, content |-> DocE, readable |-> TRUE],
     [name |-> <<"n", ".", "t", "x", "t">>, content |-> DocA, readable |-> TRUE]}

\* The statements getLessonContent returns from: `return null` of line 55,
\* `return parseFrontmatter(...)` of line 59, `return null` of line 62.
LoadReturns == {"return55", "return59", "return62"}

\* The statements getAllLessons returns from: lines 83 and 86.
CatalogReturns == {"return83", "return86"}

\* Another actor creates or rewrites a file.
EnvWrite(r) ==
    /\ fsFiles' = [f \in DOMAIN fsFiles \cup {r.name} |->
                     IF f = r.name THEN [content |-> r.content, readable |-> r.readable]
                     ELSE fsFiles[f]]
    /\ fsFiles' # fsFiles
    /\ UNCHANGED <<dirOk, op, fileContent, parsed, slug, lesson, files, lessons,
                   response, pc, todo, input>>

\* Another actor removes a file.
EnvUnlink(f) ==
    /\ f \in DOMAIN fsFiles
    /\ fsFiles' = [g \in DOMAIN fsFiles \ {f} |-> fsFiles[g]]
    /\ UNCHANGED <<dirOk, op, fileContent, parsed, slug, lesson, files, lessons,
                   response, pc, todo, input>>

\* Another actor takes away, or gives back, the permission to read a file.
EnvChmod(f) ==
    /\ f \in DOMAIN fsFiles
    /\ fsFiles' = [fsFiles EXCEPT ![f].readable = ~fsFiles[f].readable]
    /\ UNCHANGED <<dirOk, op, fileContent, parsed, slug, lesson, files, lessons,
                   response, pc, todo, input>>

\* Another actor makes the lessons directory listable or not.  Only
\* fs.readdirSync, the first statement of getAllLessons, depends on it, so
\* the change is taken between calls.
EnvSetListable ==
    /\ pc = "idle"
    /\ dirOk' = ~dirOk
    /\ UNCHANGED <<fsFiles, op, fileContent, parsed, slug, lesson, files, lessons,
                   response, pc, todo, input>>

\* getLessonContent(s) is called (line 48).
LoadStart(s) ==
    /\ pc = "idle"
    /\ op' = "getLessonContent"
    /\ slug' = s
    /\ pc' = "exists"
    /\ UNCHANGED <<fsFiles, dirOk, fileContent, parsed, lesson, files, lessons,
                   response, todo, input>>

\* if (!fs.existsSync(filePath)) { console.warn(...); return null; }
LoadExists ==
    /\ pc = "exists"
    /\ IF ~ExistsSync(fsFiles, FilePath(slug))
       THEN lesson' = NullLesson /\ pc' = "return55"
       ELSE lesson' = lesson /\ pc' = "read"
    /\ UNCHANGED <<fsFiles, dirOk, op, fileContent, parsed, slug, files, lessons,
                   response, todo, input>>

\* LoadRead without the catch: a throw of the read or of the parser leaves
\* getLessonContent.
LoadReadUncaught ==
    /\ pc = "read"
    /\ lesson' = ParseRead(ReadFileSync(fsFiles, FilePath(slug)))
    /\ pc' = (IF ParseRead(ReadFileSync(fsFiles, FilePath(slug))).threw
              THEN "return62" ELSE "return59")
    /\ UNCHANGED <<fsFiles, dirOk, op, fileContent, parsed, slug, files, lessons,
                   response, todo, input>>

\* const fileContent = fs.readFileSync(filePath, 'utf8');
\* return parseFrontmatter(fileContent);  a throw of either goes to
\* catch (error) { console.error(...); return null; }
LoadRead ==
    /\ pc = "read"
    /\ lesson' = CatchLesson(ParseRead(ReadFileSync(fsFiles, FilePath(slug))))
    /\ pc' = (IF ParseRead(ReadFileSync(fsFiles, FilePath(slug))).threw
              THEN "return62" ELSE "return59")
    /\ UNCHANGED <<fsFiles, dirOk, op, fileContent, parsed, slug, files, lessons,
                   response, todo, input>>

\* getLessonContent returns to a caller that is not getAllLessons.
LoadReturn ==
    /\ op = "getLessonContent"
    /\ pc \in LoadReturns
    /\ UNCHANGED <<fsFiles, dirOk>>
    /\ Idle

\* getAllLessons is called: const files = fs.readdirSync(lessonsDir);
\* const lessons = [];  a throw of readdirSync goes to
\* catch (error) { console.error(...); return []; }
CatalogStart ==
    /\ pc = "idle"
    /\ op' = "getAllLessons"
    /\ lessons' = NoCatalog
    /\ IF dirOk
       THEN \E listing \in Listings(DOMAIN fsFiles) :
               files' = listing /\ todo' = listing /\ pc' = "loop"
       ELSE files' = << >> /\ todo' = << >> /\ pc' = "return86"
    /\ UNCHANGED <<fsFiles, dirOk, fileContent, parsed, slug, lesson, response, input>>

\* for (const file of files) { if (file.endsWith('.md')) {
\*   const slug = file.replace('.md', ''); const content = getLessonContent(slug);
CatalogNext ==
    /\ op = "getAllLessons"
    /\ pc = "loop"
    /\ todo # << >>
    /\ IF EndsWith(Head(todo), DotMd)
       THEN slug' = ReplaceFirst(Head(todo), DotMd) /\ pc' = "exists" /\ todo' = todo
       ELSE slug' = slug /\ pc' = "loop" /\ todo' = Tail(todo)
    /\ UNCHANGED <<fsFiles, dirOk, op, fileContent, parsed, lesson, files, lessons,
                   response, input>>

\* CatalogPush going back to the loop without leaving the file behind.
CatalogPushSameFile ==
    /\ op = "getAllLessons"
    /\ pc \in LoadReturns
    /\ lessons' = PushLesson(lesson, lessons.list)
    /\ todo' = todo
    /\ pc' = "loop"
    /\ UNCHANGED <<fsFiles, dirOk, op, fileContent, parsed, slug, lesson, files,
                   response, input>>

\* getLessonContent returns to getAllLessons:
\* if (content) { lessons.push(content.metadata); }  and on to the next file.
CatalogPush ==
    /\ op = "getAllLessons"
    /\ pc \in LoadReturns
    /\ lessons' = PushLesson(lesson, lessons.list)
    /\ todo' = Tail(todo)
    /\ pc' = "loop"
    /\ UNCHANGED <<fsFiles, dirOk, op, fileContent, parsed, slug, lesson, files,
                   response, input>>

\* The loop is over: return lessons.sort((a, b) => a.order - b.order);
CatalogSort ==
    /\ op = "getAllLessons"
    /\ pc = "loop"
    /\ todo = << >>
    /\ lessons' \in ReturnSorted(lessons)
    /\ pc' = "return83"
    /\ UNCHANGED <<fsFiles, dirOk, op, fileContent, parsed, slug, lesson, files,
                   response, todo, input>>

\* getAllLessons returns to its caller.
CatalogReturn ==
    /\ op = "getAllLessons"
    /\ pc \in CatalogReturns
    /\ UNCHANGED <<fsFiles, dirOk>>
    /\ Idle

NextSteps ==
    \/ \E r \in StepResources : EnvWrite(r)
    \/ \E f \in {r.name : r \in StepResources} : EnvUnlink(f)
    \/ \E f \in {r.name : r \in StepResources} : EnvChmod(f)
    \/ EnvSetListable
    \/ \E s \in {<<"a">>, <<"z">>} : LoadStart(s)
    \/ LoadExists
    \/ LoadRead
    \/ LoadReturn
    \/ CatalogStart
    \/ CatalogNext
    \/ CatalogPush
    \/ CatalogSort
    \/ CatalogReturn

\* The loader and the catalog running step by step, the directory changing
\* under them.
SpecSteps == Init /\ [][NextSteps]_vars

\* The files of the directory getAllLessons runs to completion on.
CatalogResources ==
    {r \in StepResources : r.name \in {<<"a">> \o DotMd, <<"b">> \o DotMd,
                                        <<"n", ".", "t", "x", "t">>}}

\* The statements of a call of getAllLessons that has started.
CatalogSteps ==
    \/ CatalogNext
    \/ LoadExists
    \/ LoadRead
    \/ CatalogPush
    \/ CatalogSort
    \/ CatalogReturn

NextCatalog ==
    \/ \E r \in CatalogResources : EnvWrite(r)
    \/ \E f \in {r.name : r \in CatalogResources} : EnvUnlink(f)
    \/ \E f \in {r.name : r \in CatalogResources} : EnvChmod(f)
    \/ EnvSetListable
    \/ CatalogStart
    \/ CatalogSteps

\* getAllLessons running step by step, the directory changing under it.  The
\* function is synchronous: a call that has started runs its next statement,
\* whatever other actors do to the directory.
SpecCatalog == Init /\ [][NextCatalog]_vars /\ WF_vars(CatalogSteps)

(***************************************************************************)
(* Properties of parseFrontmatter (specification SpecParse)                *)
(***************************************************************************)

\* A number as parseInt returns it.
Number(n) == [has |-> TRUE, nan |-> FALSE, n |-> n]

\* The metadata {slug: s, order: n, title: t}.
Metadata(s, n, t) ==
    [order |-> Number(n),
     fields |-> [k \in {SlugKey, TitleKey} |-> IF k = SlugKey THEN s ELSE t]]

\* C1 as stated: for every text made of the delimiter line, the lines
\* `slug: s`, `order: n`, `title: t`, the delimiter line and a body,
\* parseFrontmatter returns the metadata {slug: s, order: n, title: t} and the
\* body with the white space at both ends removed.
C1_AsStated ==
    \A d \in FormDocuments :
        (op = "parseFrontmatter" /\ fileContent = d.text) =>
            /\ ~parsed.threw
            /\ parsed.metadata = Metadata(d.s, d.n, d.t)
            /\ parsed.content = Trim(d.body)

\* C1 amended: as C1, with slug and title the texts s and t after their white
\* space at both ends is removed.
C1_TrimmedFields ==
    \A d \in FormDocuments :
        (op = "parseFrontmatter" /\ fileContent = d.text) =>
            /\ ~parsed.threw
            /\ parsed.metadata = Metadata(Trim(d.s), d.n, Trim(d.t))
            /\ parsed.content = Trim(d.body)

\* A document with a two-word slug, the order 07, a title holding a colon and
\* a body surrounded by white space has been parsed.
C1_Witness ==
    /\ op = "parseFrontmatter"
    /\ ~parsed.threw
    /\ \E d \in FormDocuments :
          /\ fileContent = d.text
          /\ d.s = <<"b", " ", "c">>
          /\ d.n = 7
          /\ d.t = <<"T", ":", "x">>
          /\ Trim(d.body) # d.body
          /\ Trim(d.body) # << >>

\* A delimiter line: --- and nothing but white space after it.
IsDelimiterLine(line) ==
    /\ Len(line) >= 3
    /\ SubSeq(line, 1, 3) = Dashes
    /\ \A i \in 4..Len(line) : line[i] \in WhiteSpace

\* The text has a delimiter line after its first line.
HasClosingDelimiterLine(text) ==
    \E i \in 2..Len(SplitLines(text)) : IsDelimiterLine(SplitLines(text)[i])

\* C2: parseFrontmatter throws, and returns nothing, for every text that has
\* no closing delimiter line after its first line.
C2_NoClosingThrows ==
    (op = "parseFrontmatter" /\ ~HasClosingDelimiterLine(fileContent)) =>
        parsed = ParseError

\* A text that opens with the delimiter line and a `key: value` line and has
\* no closing delimiter line has been rejected.
C2_Witness ==
    /\ op = "parseFrontmatter"
    /\ Len(fileContent) > 8
    /\ SubSeq(fileContent, 1, 8) = Dashes \o NL \o <<"k", ":", "v">> \o NL
    /\ ~HasClosingDelimiterLine(fileContent)
    /\ parsed.threw

\* Lines without a colon that are no delimiter lines.
StrayLines == {<<"x">>, << >>, <<" ">>, <<"-", "-">>, <<"-", "-", "-", "x">>}

RECURSIVE JoinWithLineFeeds(_)
\* The inverse of SplitLines: the lines with a line feed between them.
JoinWithLineFeeds(ls) ==
    IF Len(ls) <= 1 THEN (IF ls = << >> THEN << >> ELSE ls[1])
    ELSE ls[1] \o NL \o JoinWithLineFeeds(Tail(ls))

\* The text with `line` inserted as its j-th line.
InsertLine(text, j, line) ==
    JoinWithLineFeeds(SubSeq(SplitLines(text), 1, j - 1) \o <<line>>
                      \o SubSeq(SplitLines(text), j, Len(SplitLines(text))))

\* The number of the closing delimiter line: the first delimiter line after
\* line 1.  The metadata block is made of the lines between line 1 and it.
ClosingLine(text) ==
    Min({i \in 2..Len(SplitLines(text)) : IsDelimiterLine(SplitLines(text)[i])})

\* C3 as stated: for every text parseFrontmatter accepts and every line
\* without a colon that is no delimiter line, the text with the line
\* inserted anywhere in the metadata block parses to the same metadata and
\* the same body.
C3_StrayLineIgnored ==
    (op = "parseFrontmatter" /\ ~parsed.threw) =>
        \A j \in 2..ClosingLine(fileContent) : \A line \in StrayLines :
            parseFrontmatter(InsertLine(fileContent, j, line)) = parsed

\* The string has no line feed and no white space at either end.
IsPlain(s) == Trim(s) = s /\ IndexOf(s, "\n") = -1

\* C11 as stated: for every record {slug, order, title} and every body, the
\* record and the body serialized to the two-delimiter format parse back to
\* the same metadata and the same body.
C11_RoundTrip ==
    \A r \in RoundTripRecords :
        (op = "parseFrontmatter" /\ fileContent = r.text) =>
            /\ ~parsed.threw
            /\ parsed.metadata = Metadata(r.s, r.n, r.t)
            /\ parsed.content = r.body

\* C11 amended: the round trip returns the record and the body when slug and
\* title have no line feed and no white space at either end and the body has
\* no white space at either end.
C11_RoundTripPlain ==
    \A r \in RoundTripRecords :
        (/\ op = "parseFrontmatter"
         /\ fileContent = r.text
         /\ IsPlain(r.s) /\ IsPlain(r.t) /\ Trim(r.body) = r.body) =>
            /\ ~parsed.threw
            /\ parsed.metadata = Metadata(r.s, r.n, r.t)
            /\ parsed.content = r.body

\* The record {slug: "b c", order: -2, title: "T:x"} with a body of two lines
\* that starts with a delimiter line has been serialized and parsed.
C11_Witness ==
    /\ op = "parseFrontmatter"
    /\ ~parsed.threw
    /\ fileContent = Serialize(<<"b", " ", "c">>, 0 - 2, <<"T", ":", "x">>,
                               <<"-", "-", "-", "\n", "x", " ", "y">>)
    /\ parsed.content = <<"-", "-", "-", "\n", "x", " ", "y">>

\* The opening delimiter line immediately followed by the closing one.
EmptyBlock == Dashes \o NL \o Dashes \o NL

\* C15 as stated: every text made of the opening delimiter line, the closing
\* delimiter line right after it and a body parses, with empty metadata and
\* the body without the white space at its ends as content.
C15_EmptyBlockAccepted ==
    (/\ op = "parseFrontmatter"
     /\ Len(fileContent) >= Len(EmptyBlock)
     /\ SubSeq(fileContent, 1, Len(EmptyBlock)) = EmptyBlock) =>
        parsed = [threw    |-> FALSE,
                  metadata |-> EmptyMetadata,
                  content  |-> Trim(SubSeq(fileContent, Len(EmptyBlock) + 1,
                                           Len(fileContent)))]

\* The lines of the metadata block of the text: what the pattern captures
\* between the delimiter lines, split at the line feeds.
BlockLines(text) == SplitLines(FrontmatterMatch(text).g1)

\* The position of the first colon of the line, from 1; 0 when it has none.
FirstColon(line) ==
    IF \A i \in 1..Len(line) : line[i] # ":" THEN 0
    ELSE CHOOSE i \in 1..Len(line) : line[i] = ":" /\ \A j \in 1..(i - 1) : line[j] # ":"

\* The text before the first colon of the line, without the white space at
\* its ends.
KeyOf(line) == Trim(SubSeq(line, 1, FirstColon(line) - 1))

\* The text after the first colon of the line, without the white space at
\* its ends.
ValueOf(line) == Trim(SubSeq(line, FirstColon(line) + 1, Len(line)))

\* The metadata holds what the lines of ls numbered in S say, the key
\* `order` apart: every key of such a line is stored, with the value of the
\* last such line that has the key, and no other key is stored.
StoresLines(metadata, ls, S) ==
    /\ DOMAIN metadata.fields = {KeyOf(ls[i]) : i \in S} \ {OrderKey}
    /\ \A i \in S :
          (/\ KeyOf(ls[i]) # OrderKey
           /\ \A j \in S : j > i => KeyOf(ls[j]) # KeyOf(ls[i]))
            => metadata.fields[KeyOf(ls[i])] = ValueOf(ls[i])

\* C20 as stated: every line of the metadata block that has a colon is split
\* at its first colon into the trimmed key before it and the trimmed value
\* after it, and every key other than `order` is stored with that value.
C20_SplitAtFirstColon ==
    (op = "parseFrontmatter" /\ ~parsed.threw) =>
        StoresLines(parsed.metadata, BlockLines(fileContent),
                    {i \in 1..Len(BlockLines(fileContent)) :
                        FirstColon(BlockLines(fileContent)[i]) > 0})

\* C20 amended: as C20, for the lines whose first colon is not their first
\* character; a line that starts with a colon is ignored.
C20_SplitAtInnerColon ==
    (op = "parseFrontmatter" /\ ~parsed.threw) =>
        StoresLines(parsed.metadata, BlockLines(fileContent),
                    {i \in 1..Len(BlockLines(fileContent)) :
                        FirstColon(BlockLines(fileContent)[i]) > 1})

\* A block with the lines `:v` and ` k : w:u ` has been parsed: the key k is
\* stored with the value w:u and nothing else is.
C20_Witness ==
    /\ op = "parseFrontmatter"
    /\ ~parsed.threw
    /\ BlockLines(fileContent)
         = <<<<":", "v">>, <<" ", "k", " ", ":", " ", "w", ":", "u", " ">>>>
    /\ parsed.metadata.fields = [key \in {<<"k">>} |-> <<"w", ":", "u">>]

\* NaN as parseInt returns it.
NotANumber == [has |-> TRUE, nan |-> TRUE, n |-> 0]

BeginsWithDelimiterLine(text) ==
    /\ Len(SplitLines(text)) >= 2
    /\ IsDelimiterLine(SplitLines(text)[1])

\* C25: parseFrontmatter throws for every text that does not begin with a
\* delimiter line: a text with any character, white space or a blank line
\* included, before its first ---, and a text whose first line is ---
\* followed by anything that is not white space.
C25_MustBeginWithDelimiter ==
    (op = "parseFrontmatter" /\ ~BeginsWithDelimiterLine(fileContent)) =>
        parsed = ParseError

\* parseFrontmatter has thrown for a document that parses once the blank
\* line before its opening --- is taken away.
C25_Witness ==
    /\ op = "parseFrontmatter"
    /\ fileContent \in MisplacedOpenings
    /\ Head(fileContent) = "\n"
    /\ ~parseFrontmatter(Tail(fileContent)).threw
    /\ parsed = ParseError

\* The text has a delimiter line after its closing delimiter line.
HasLaterDelimiterLine(text) ==
    \E i \in (ClosingLine(text) + 1)..Len(SplitLines(text)) :
        IsDelimiterLine(SplitLines(text)[i])

\* What parseFrontmatter returns when the metadata block of the text ends at
\* line number c: the metadata of the lines between line 1 and line c, and
\* the lines after line c as body.
ParsedUpTo(text, c) ==
    [threw    |-> FALSE,
     metadata |-> ApplyLines(EmptyMetadata, SubSeq(SplitLines(text), 2, c - 1)),
     content  |-> Trim(JoinWithLineFeeds(SubSeq(SplitLines(text), c + 1,
                                                Len(SplitLines(text)))))]

\* C27 as stated: for every text that begins with a delimiter line and has
\* further delimiter lines after its first closing delimiter line, the
\* metadata are those of the lines before the first closing delimiter line,
\* and everything after that line, later --- lines included, is the body,
\* trimmed at both ends.
C27_EndsAtFirstClosing ==
    (/\ op = "parseFrontmatter"
     /\ BeginsWithDelimiterLine(fileContent)
     /\ HasClosingDelimiterLine(fileContent)
     /\ HasLaterDelimiterLine(fileContent)) =>
        parsed = ParsedUpTo(fileContent, ClosingLine(fileContent))

(***************************************************************************)
(* Properties of getLessonContent and getAllLessons (specification Spec)   *)
(***************************************************************************)

\* C4: getLessonContent(slug) returns null, and does not raise, whenever the
\* lessons directory holds no file <slug>.md; an empty directory included.
C4_MissingIsNull ==
    (op = "getLessonContent" /\ FilePath(slug) \notin DOMAIN fsFiles) =>
        lesson = NullLesson

\* getLessonContent has been called for a missing file of a directory that
\* holds other files.
C4_Witness ==
    /\ op = "getLessonContent"
    /\ FilePath(slug) \notin DOMAIN fsFiles
    /\ DOMAIN fsFiles # {}
    /\ lesson.isNull

\* The file <s>.md exists, can be read, and parseFrontmatter rejects its text.
IsMalformed(fs, s) ==
    /\ FilePath(s) \in DOMAIN fs
    /\ fs[FilePath(s)].readable
    /\ ParseFile(fs[FilePath(s)].content).threw

\* C5: getLessonContent(slug) returns null, and does not raise, whenever the
\* file <slug>.md exists and parseFrontmatter rejects its text.
C5_MalformedIsNull ==
    (op = "getLessonContent" /\ IsMalformed(fsFiles, slug)) => lesson = NullLesson

\* getLessonContent has been called for an existing file without closing
\* delimiter.
C5_Witness ==
    /\ op = "getLessonContent"
    /\ IsMalformed(fsFiles, slug)
    /\ fsFiles[FilePath(slug)].content = DocBad
    /\ lesson.isNull

\* a.order <= b.order as JavaScript evaluates it: false when either side is
\* NaN or undefined.
LessOrEqual(a, b) == a.has /\ ~a.nan /\ b.has /\ ~b.nan /\ a.n <= b.n

\* C6 as stated: whatever the directory holds and in whatever order it is
\* listed, every two adjacent entries e[i], e[i+1] of the result of
\* getAllLessons satisfy e[i].order <= e[i+1].order.
C6_SortedByOrder ==
    op = "getAllLessons" =>
        \A i \in 1..(Len(lessons.list) - 1) :
            LessOrEqual(lessons.list[i].order, lessons.list[i + 1].order)

\* The file f holds a valid lesson: it can be read, parses, and its metadata
\* has a slug, a title and an integer order.
IsValidResource(fs, f) ==
    /\ fs[f].readable
    /\ ~ParseFile(fs[f].content).threw
    /\ ParseFile(fs[f].content).metadata.order.has
    /\ ~ParseFile(fs[f].content).metadata.order.nan
    /\ {SlugKey, TitleKey} \subseteq DOMAIN ParseFile(fs[f].content).metadata.fields

\* Every file holds a valid lesson and no two files have the same order.
ValidDistinctStore(fs) ==
    /\ \A f \in DOMAIN fs : IsValidResource(fs, f)
    /\ \A f, g \in DOMAIN fs :
          f # g => ParseFile(fs[f].content).metadata.order.n
                     # ParseFile(fs[g].content).metadata.order.n

\* C7: over a directory of valid lessons with pairwise distinct integer
\* orders, getAllLessons returns the same sequence in whichever order the
\* directory is listed.
C7_ListingOrderIrrelevant ==
    (op = "getAllLessons" /\ dirOk /\ ValidDistinctStore(fsFiles)) =>
        \A listing \in Listings(DOMAIN fsFiles) :
            getAllLessons(fsFiles, dirOk, listing) = {lessons}

\* getAllLessons has returned three entries from a directory of valid lessons
\* with distinct orders that was listed in another order than the result.
C7_Witness ==
    /\ op = "getAllLessons"
    /\ dirOk
    /\ ValidDistinctStore(fsFiles)
    /\ Len(lessons.list) = 3
    /\ CollectLessons(fsFiles, files, << >>).list # lessons.list

\* The number of entries of list equal to m.
CountIn(list, m) == Cardinality({i \in 1..Len(list) : list[i] = m})

\* The name f without its final .md.
StripSuffix(f) == SubSeq(f, 1, Len(f) - Len(DotMd))

\* The .md files of the directory that getLessonContent loads a document for.
LoadableFiles(fs) ==
    {f \in DOMAIN fs :
        EndsWith(f, DotMd) /\ ~getLessonContent(fs, StripSuffix(f)).isNull}

\* C8 as stated: the entries of the result of getAllLessons are, as a
\* multiset, the metadata of the .md files that getLessonContent loads a
\* document for.
C8_ExactlyTheLoadable ==
    (op = "getAllLessons" /\ dirOk) =>
        /\ \A i \in 1..Len(lessons.list) :
              \E f \in LoadableFiles(fsFiles) :
                 lessons.list[i] = getLessonContent(fsFiles, StripSuffix(f)).metadata
        /\ \A f \in LoadableFiles(fsFiles) :
              CountIn(lessons.list, getLessonContent(fsFiles, StripSuffix(f)).metadata)
                = Cardinality({g \in LoadableFiles(fsFiles) :
                     getLessonContent(fsFiles, StripSuffix(g)).metadata
                       = getLessonContent(fsFiles, StripSuffix(f)).metadata})

\* C9: getAllLessons never raises; it returns the empty sequence when the
\* directory is empty, when no file of it parses, and when listing the
\* directory fails.
C9_CatalogNeverRaises ==
    op = "getAllLessons" =>
        /\ ~lessons.threw
        /\ DOMAIN fsFiles = {} => lessons.list = << >>
        /\ (\A f \in DOMAIN fsFiles :
              ~fsFiles[f].readable \/ ParseFile(fsFiles[f].content).threw)
             => lessons.list = << >>
        /\ ~dirOk => lessons.list = << >>

\* getAllLessons has been called while the directory, which holds a valid
\* lesson, could not be listed.
C9_Witness ==
    /\ op = "getAllLessons"
    /\ ~dirOk
    /\ \E f \in DOMAIN fsFiles : EndsWith(f, DotMd) /\ IsValidResource(fsFiles, f)
    /\ lessons = NoCatalog

\* The entries of list whose order is the number n, in their order in list.
WithOrder(list, n) ==
    LET Has(m) == m.order = Number(n) IN SelectSeq(list, Has)

\* C10 as stated: entries of the result of getAllLessons with equal order
\* values are in the order in which the directory listing produced them.
C10_StableSort ==
    op = "getAllLessons" =>
        \A i \in 1..Len(lessons.list) :
            (lessons.list[i].order.has /\ ~lessons.list[i].order.nan) =>
                WithOrder(lessons.list, lessons.list[i].order.n)
                  = WithOrder(CollectLessons(fsFiles, files, << >>).list,
                              lessons.list[i].order.n)

\* C18 as stated: getLessonContent resolves the same identifier to the same
\* file path every time, and two different identifiers never to the same
\* file path.
C18_InjectiveLocator ==
    op = "getLessonContent" =>
        \A s, t \in Slugs :
            /\ s = t => FilePath(s) = FilePath(t)
            /\ (s = slug /\ t # s) => FilePath(t) # FilePath(s)

\* C12 as stated: every entry of the result of getAllLessons has a slug, a
\* title and an integer order; a file whose metadata block lacks one of them,
\* or whose order is no integer, gives no entry.
C12_WellFormedEntries ==
    op = "getAllLessons" =>
        \A i \in 1..Len(lessons.list) :
            /\ lessons.list[i].order.has
            /\ ~lessons.list[i].order.nan
            /\ {SlugKey, TitleKey} \subseteq DOMAIN lessons.list[i].fields

\* metadata.slug: the string, or undefined when the key is not set.
SlugOf(m) ==
    IF SlugKey \in DOMAIN m.fields
    THEN [defined |-> TRUE, value |-> m.fields[SlugKey]]
    ELSE [defined |-> FALSE, value |-> << >>]

\* C13 as stated: whatever the directory holds, no two entries of the result
\* of getAllLessons have the same slug.
C13_UniqueSlugs ==
    op = "getAllLessons" =>
        \A i, j \in 1..Len(lessons.list) :
            i # j => SlugOf(lessons.list[i]) # SlugOf(lessons.list[j])

\* The file <s>.md exists and cannot be read.
IsUnreadable(fs, s) == FilePath(s) \in DOMAIN fs /\ ~fs[FilePath(s)].readable

\* C14: the query lessons.getLessonContent returns the document that
\* getLessonContent returns, and fails with NOT_FOUND when getLessonContent
\* returns null; it fails with NOT_FOUND for a missing, for a malformed and
\* for an unreadable lesson, and with no other code.
C14_QueryNotFound ==
    op = "lessons.getLessonContent" =>
        /\ ~lesson.isNull =>
              /\ response.kind = "data"
              /\ response.metadata = lesson.metadata
              /\ response.content = lesson.content
        /\ lesson.isNull => response = TRPCError("NOT_FOUND")
        /\ (\/ FilePath(slug) \notin DOMAIN fsFiles
            \/ IsMalformed(fsFiles, slug)
            \/ IsUnreadable(fsFiles, slug)) => response = TRPCError("NOT_FOUND")
        /\ response.kind = "error" => response.code = "NOT_FOUND"

\* The query has failed with NOT_FOUND for a file that exists and cannot be
\* read, in a directory that holds a lesson that loads.
C14_Witness ==
    /\ op = "lessons.getLessonContent"
    /\ IsUnreadable(fsFiles, slug)
    /\ \E f \in DOMAIN fsFiles : IsValidResource(fsFiles, f)
    /\ response = TRPCError("NOT_FOUND")

\* C16: every call of getLessonContent and of getAllLessons, also through the
\* router, leaves the lessons directory as it was: the same files with the
\* same texts and permissions.
C16_ReadOnly ==
    [][op' # "none" => (fsFiles' = fsFiles /\ dirOk' = dirOk)]_vars

\* getAllLessons has returned one entry from a directory that also holds a
\* file it could not read and a file it could not parse.
C16_Witness ==
    /\ op = "getAllLessons"
    /\ dirOk
    /\ Len(lessons.list) = 1
    /\ \E f, g \in DOMAIN fsFiles :
          /\ EndsWith(f, DotMd) /\ ~fsFiles[f].readable
          /\ EndsWith(g, DotMd) /\ fsFiles[g].readable
          /\ ParseFile(fsFiles[g].content).threw

\* The catalog build with its loads issued together: `collected` is what the
\* loads of the listed names give; they complete in any order, each pushes
\* its metadata when it completes, and the array is sorted at the end as
\* getAllLessons sorts it.
ConcurrentCatalog(collected) ==
    IF collected.threw THEN {CatchLessons(collected)}
    ELSE UNION {{CatchLessons(r) : r \in ReturnSorted([threw |-> FALSE, list |-> completed])} :
                    completed \in Rearrangements(collected.list)}

\* The entries of list have integer orders, no two the same.
DistinctIntegerOrders(list) ==
    /\ \A i \in 1..Len(list) : list[i].order.has /\ ~list[i].order.nan
    /\ \A i, j \in 1..Len(list) : i # j => list[i].order.n # list[j].order.n

getAllLessonsCollected(fs, ok, listing) ==
    IF ~ok THEN [threw |-> TRUE, list |-> << >>]
    ELSE CollectLessons(fs, listing, << >>)

\* l is a result getAllLessons returns once it has collected `collected`.
IsCatalogOf(l, collected) ==
    IF collected.threw THEN l = CatchLessons(collected)
    ELSE ~l.threw /\ l.list \in SortOutcomes(collected.list)

SlugString(m) ==
    IF SlugOf(m).defined THEN SlugOf(m).value
    ELSE <<"u", "n", "d", "e", "f", "i", "n", "e", "d">>

\* C26 as stated: every entry of the result of getAllLessons loads by its
\* slug: getLessonContent of the slug returns a document with the metadata of
\* the entry, and the query of the router does not fail with NOT_FOUND.
C26_CatalogEntriesLoadable ==
    op = "getAllLessons" =>
        \A i \in 1..Len(lessons.list) :
            /\ ~getLessonContent(fsFiles, SlugString(lessons.list[i])).isNull
            /\ getLessonContent(fsFiles, SlugString(lessons.list[i])).metadata = lessons.list[i]
            /\ LessonContentQuery(getLessonContent(fsFiles, SlugString(lessons.list[i])))
                    # TRPCError("NOT_FOUND")

\* The path lies inside the lessons directory (FromLessonsDir writes a path
\* outside it with a leading `/`).
InsideLessonsDir(filePath) == filePath # << >> /\ Head(filePath) # "/"

\* C28 as stated: whatever the identifier, the file getLessonContent checks
\* the existence of and reads lies inside the lessons directory.
C28_StaysInsideLessonsDir ==
    op \in {"getLessonContent", "lessons.getLessonContent"} =>
        InsideLessonsDir(FilePath(slug))

(***************************************************************************)
(* Properties of the calls running step by step (specification SpecSteps)  *)
(***************************************************************************)

\* fs.readFileSync of the file of the slug fails: the file is gone or cannot
\* be read.
ReadFails == ReadFileSync(fsFiles, FilePath(slug)).threw

\* C17: getLessonContent never raises; when the read fails after the
\* existence check succeeded (the file was removed or made unreadable in
\* between) it returns null.  In getAllLessons a load that returns null,
\* because the file was removed after the listing or because its read failed,
\* adds no entry and the loop goes on with the next file, and the result has
\* the entries collected from the other files.
C17_ReadFailureIsAbsence ==
    /\ [](pc \in LoadReturns => ~lesson.threw)
    /\ [](pc \in {"return55", "return62"} => lesson = NullLesson)
    /\ [][(pc = "read" /\ pc' # "read" /\ ReadFails)
            => (pc' = "return62" /\ lesson' = NullLesson)]_vars
    /\ [][(op = "getAllLessons" /\ pc \in {"return55", "return62"} /\ pc' # pc)
            => (pc' = "loop" /\ lessons' = lessons /\ todo' = Tail(todo))]_vars
    /\ [][(op = "getAllLessons" /\ pc = "loop" /\ todo = << >> /\ pc' # pc)
            => (/\ pc' = "return83"
                /\ ~lessons'.threw
                /\ lessons'.list \in Rearrangements(lessons.list))]_vars

\* Inside getAllLessons, which has collected one entry already, a file passed
\* the existence check, was removed, and its read was caught.
C17_Witness ==
    /\ op = "getAllLessons"
    /\ pc = "return62"
    /\ FilePath(slug) \notin DOMAIN fsFiles
    /\ lesson = NullLesson
    /\ Len(lessons.list) = 1

\* C19 as stated: the identifier getAllLessons passes to getLessonContent for
\* an enumerated name f is f without its final .md, the file the load looks
\* for is f itself, and only names that end with .md are loaded.
C19_StripsSuffix ==
    (op = "getAllLessons" /\ pc \in {"exists", "read"} \cup LoadReturns) =>
        /\ EndsWith(Head(todo), DotMd)
        /\ slug = StripSuffix(Head(todo))
        /\ slug \o DotMd = Head(todo)
        /\ FilePath(slug) = Head(todo)

\* rest is what is left of list after some of its first elements.
IsSuffix(rest, list) ==
    /\ Len(rest) <= Len(list)
    /\ \A i \in 1..Len(rest) : rest[i] = list[Len(list) - Len(rest) + i]

\* The statements a call of getAllLessons has left to run, at most: four for
\* each name still to visit (the test of the name, the existence check, the
\* read, the push), then the sort.
StepsLeft ==
    IF pc = "loop" THEN 4 * Len(todo) + 1
    ELSE IF pc = "exists" THEN 4 * Len(todo)
    ELSE IF pc = "read" THEN 4 * Len(todo) - 1
    ELSE IF pc \in LoadReturns THEN 4 * Len(todo) - 2
    ELSE 0

\* C24: a call of getAllLessons lists the directory once, then visits the
\* names of that listing one after the other; it checks the existence of a
\* file and reads a file only for the name it is visiting, a name ending
\* with `.md`, at most once each (every statement leaves fewer statements to
\* run), and it returns.
C24_CatalogTerminates ==
    /\ [](op = "getAllLessons" =>
            /\ IsSuffix(todo, files)
            /\ StepsLeft >= 0
            /\ pc \in {"exists", "read"} \cup LoadReturns =>
                  /\ todo # << >>
                  /\ EndsWith(Head(todo), DotMd)
                  /\ slug = ReplaceFirst(Head(todo), DotMd))
    /\ [][(op = "getAllLessons" /\ op' = "getAllLessons") => files' = files]_vars
    /\ [][(op = "getAllLessons" /\ (pc' # pc \/ todo' # todo)) =>
            \/ op' = "none"
            \/ StepsLeft' < StepsLeft]_vars
    /\ (op = "getAllLessons") ~> (op = "getAllLessons" /\ pc \in CatalogReturns)

\* getAllLessons is about to return one lesson from a listing of three names:
\* one that does not end with `.md`, one it could load, one it could not.
C24_Witness ==
    /\ op = "getAllLessons"
    /\ pc = "return83"
    /\ Len(files) = 3
    /\ \E i \in 1..3 : ~EndsWith(files[i], DotMd)
    /\ Len(lessons.list) = 1

(***************************************************************************)
(* Properties of getUser and deletePost (specification SpecRouter)         *)
(***************************************************************************)

\* The response is a TRPCError of the code.
FailsWith(code) == response.kind = "error" /\ response.code = code

\* C29: deletePost checks in a fixed order.  A userId other than 1 and 2
\* gives UNAUTHORIZED whatever the postId; otherwise a postId above 100 gives
\* NOT_FOUND; otherwise the postId 13 gives INTERNAL_SERVER_ERROR; otherwise
\* the mutation returns success: true and the message naming the postId.
\* One of the four happens, and only one.
C29_DeletePostOrder ==
    op = "lessons.deletePost" =>
        /\ response.kind \in {"error", "data"}
        /\ input.userId \notin {1, 2} => FailsWith("UNAUTHORIZED")
        /\ (input.userId \in {1, 2} /\ input.postId > 100) => FailsWith("NOT_FOUND")
        /\ (input.userId \in {1, 2} /\ input.postId <= 100 /\ input.postId = 13) =>
              FailsWith("INTERNAL_SERVER_ERROR")
        /\ (input.userId \in {1, 2} /\ input.postId <= 100 /\ input.postId # 13) =>
              /\ response.kind = "data"
              /\ response.data.success = TRUE
              /\ response.data.message = DeletedMessage(input.postId)

\* deletePost has answered UNAUTHORIZED to a user that is no admin for a
\* post above 100.
C29_Witness ==
    /\ op = "lessons.deletePost"
    /\ input = [postId |-> 101, userId |-> 3]
    /\ FailsWith("UNAUTHORIZED")

====
